---- MODULE Spec2Model ----
(***************************************************************************)
(* Pipe2D: lazy, composable, random-access 2D samplers.                    *)
(*                                                                         *)
(* Numbers.  A JavaScript number n is held as the integer n * Den          *)
(* (fixed point, resolution 1/Den), so x = 1 is Den and x = 0.5 is Den/2   *)
(* when Den is even.  Extents and coordinates use the same scale.  All the *)
(* arithmetic the modelled code performs on them (+, -, comparison, floor) *)
(* is exact on this grid, as it is on doubles of this size.                *)
(*                                                                         *)
(* Values.  A sample is a 4-tuple of integers.  The getter handed to the   *)
(* Pipe2D constructor is modelled by the injective stub                    *)
(* <<id, epoch, x, y>>: any getter is a function of it.  Undefined is the  *)
(* JavaScript value undefined.                                             *)
(***************************************************************************)
EXTENDS Integers, Sequences, FiniteSets, TLC

VARIABLES
    base,        \* SpecPipe: the leaf sampler P the chain is built on
    cur,         \* SpecPipe: the sampler obtained from base by the combinators applied so far
    res,         \* SpecPipe: the outcome of the last get / export on cur
    sources,     \* SpecStack: the array handed to Pipe2D.stack; SpecSeq: to pipeSequence
    fallback,    \* SpecStack: the fallback handed to Pipe2D.stack
    sres,        \* SpecStack, SpecSeq: the outcome of the last get on the stack / sequence
    parent,      \* SpecCache: the sampler withCache() was called on (this)
    epoch,       \* SpecCache, SpecStash: the state a non-pure getter reads (0 for ever when pure)
    pure,        \* SpecCache: whether the parent's getter is pure
    invalidator, \* SpecCache: whether an invalidator was handed to withCache
    columnsMap,  \* SpecCache: Map<number, Map<number, {time, value}>>
    count,       \* SpecCache: let count
    now,         \* SpecCache: Date.now()
    hist,        \* SpecCache: history, per coordinate: reads made, reads returned, parent calls
    steps,       \* SpecCache: history, number of reads made on the cached sampler
    cres,        \* SpecCache: the outcome of the last get on the cached sampler
    blend        \* SpecBlend: the last call of a pure function: its arguments and result

vars == <<base, cur, res, sources, fallback, sres, parent, epoch, pure, invalidator,
          columnsMap, count, now, hist, steps, cres, blend>>

pipeVars  == <<base, cur, res>>
stackVars == <<sources, fallback, sres>>
cacheVars == <<parent, epoch, pure, invalidator, columnsMap, count, now, hist, steps, cres>>
blendVars == <<blend>>

----------------------------------------------------------------------------
(* Bounds *)

Den == 2            \* resolution of the number grid: coordinates are multiples of 1/Den
MaxW == 2           \* largest width / height of a leaf sampler, in whole units
MaxDepth == 2       \* longest chain of combinators applied to the leaf in SpecPipe
MaxSources == 2     \* longest source list handed to Pipe2D.stack
MaxReads == 3       \* reads made on a cached sampler
MaxNow == 1         \* ticks of the clock

One == Den
Undefined == <<0, 0, 0, 0>>

Num(n) == n * Den                                  \* the number n
IsInteger(x) == x % Den = 0                        \* Number.isInteger
Floor(x) == (x \div Den) * Den                     \* Math.floor
Whole(x) == x \div Den                             \* the integer a whole number stands for

\* the coordinates reads are made at: from one unit below 0 to one unit above the largest extent
Coords == (0 - One) .. (Num(MaxW) + One)
\* the integral coordinates a loop "for (i = 0; i < extent; i++)" visits
Lattice(extent) == {c \in 0 .. (IF extent > 0 THEN extent - 1 ELSE -1) : IsInteger(c)}

Ok(v, reads) == [ok |-> TRUE, val |-> v, reads |-> reads]
Thrown(reads) == [ok |-> FALSE, val |-> Undefined, reads |-> reads]

----------------------------------------------------------------------------
(* Constructors: each returns the object `new Pipe2D(width, height, getter)` builds *)

\* new Pipe2D(width, height, getter) with a caller's getter (see StubGetter)
Stub(id, width, height) ==
    [kind |-> "stub", width |-> width, height |-> height, id |-> id]

MapCoordinates(this, modifier) ==
    [kind |-> "mapCoordinates", width |-> this.width, height |-> this.height,
     modifier |-> modifier, parent |-> this]

HorizontalFlip(this) == MapCoordinates(this, "horizontalFlip")

VerticalFlip(this) == MapCoordinates(this, "verticalFlip")

Rotate(this, direction) ==
    [kind |-> "rotate",
     width |-> IF direction = "over" THEN this.width ELSE this.height,
     height |-> IF direction = "over" THEN this.height ELSE this.width,
     direction |-> direction, parent |-> this]

\* the function-style library: horizontalFlipPipe(source)
HorizontalFlipPipe(source) ==
    [kind |-> "horizontalFlipPipe", width |-> source.width, height |-> source.height,
     parent |-> source]

\* the function-style library: rotatePipe(source, direction)
RotatePipe(source, direction) ==
    [kind |-> "rotatePipe",
     width |-> IF direction = "over" THEN source.width ELSE source.height,
     height |-> IF direction = "over" THEN source.height ELSE source.width,
     direction |-> direction, parent |-> source]

Strict(this) ==
    [kind |-> "strict", width |-> this.width, height |-> this.height, parent |-> this]

FlatArrayPipe(source, width, height, oob, vertical) ==
    [kind |-> "flat", width |-> width, height |-> height, source |-> source,
     oob |-> oob, vertical |-> vertical]

FromFlatArrayXY(source, width, height, fb) == FlatArrayPipe(source, width, height, fb, FALSE)

FromFlatArrayYX(source, width, height, fb) == FlatArrayPipe(source, width, height, fb, TRUE)

\* this.mapCoordinates((mx, my) => [mx + x, my + y])
Translate(this, x, y) ==
    [kind |-> "mapCoordinates", width |-> this.width, height |-> this.height,
     modifier |-> "translate", parent |-> this, dx |-> x, dy |-> y]

ClampCoordinates(this) == MapCoordinates(this, "clampCoordinates")

RoundCoordinates(this) == MapCoordinates(this, "roundCoordinates")

FloorCoordinates(this) == MapCoordinates(this, "floorCoordinates")

\* a * b, and a / b where the quotient is a number of the grid
Times(a, b) == (a * b) \div Den
IsOnGrid(a, b) == b # 0 /\ (a * Den) % b = 0
Quotient(a, b) == (a * Den) \div b

\* new Pipe2D(this.width * scaleX, this.height * scaleY, ...)
Scale(this, scaleX, scaleY) ==
    [kind |-> "scale", width |-> Times(this.width, scaleX), height |-> Times(this.height, scaleY),
     scaleX |-> scaleX, scaleY |-> scaleY, parent |-> this]

\* new Pipe2D(reportedWidth, reportedHeight, ...)
Loop(this, reportedWidth, reportedHeight) ==
    [kind |-> "loop", width |-> reportedWidth, height |-> reportedHeight, parent |-> this]

\* new Pipe2D(this.width, this.height, ...) around a caller's resolver; integral coordinates
\* go straight to the parent
Interpolate(this, resolver) ==
    [kind |-> "interpolate", width |-> this.width, height |-> this.height,
     resolver |-> resolver, direct |-> TRUE, parent |-> this]

\* the same without the test for integral coordinates
InterpolateAs(this, resolver) ==
    [kind |-> "interpolate", width |-> this.width, height |-> this.height,
     resolver |-> resolver, direct |-> FALSE, parent |-> this]

Oob(this, value) ==
    [kind |-> "oob", width |-> this.width, height |-> this.height, value |-> value,
     parent |-> this]

Crop(this, x, y, width, height) ==
    [kind |-> "crop", width |-> width, height |-> height, x |-> x, y |-> y, parent |-> this]

----------------------------------------------------------------------------
(* The coordinate maps of the closures *)

\* a flip that floors the coordinate it computes
HorizontalFlipModifierFloored(this, x, y) == <<Floor(this.width - x - One), y>>

\* (x, y) => [this.width - x - 1, y]
HorizontalFlipModifier(this, x, y) == <<this.width - x - One, y>>

\* a flip about the bottom edge instead of the last row (this.height - y)
VerticalFlipModifierNoOffset(this, x, y) == <<x, this.height - y>>

\* (x, y) => [x, this.height - y - 1]
VerticalFlipModifier(this, x, y) == <<x, this.height - y - One>>

Min(a, b) == IF a < b THEN a ELSE b
Max(a, b) == IF a > b THEN a ELSE b

\* Math.round: the nearest whole number, a half going up
Round(x) == ((2 * x + Den) \div (2 * Den)) * Den

\* Math.ceil
Ceil(x) == IF IsInteger(x) THEN x ELSE Floor(x) + One

\* (x, y) => [Math.max(0, Math.min(this.width - 1, x)), Math.max(0, Math.min(this.height - 1, y))]
ClampModifier(this, x, y) ==
    <<Max(0, Min(this.width - One, x)), Max(0, Min(this.height - One, y))>>

\* (x, y) => [Math.round(x), Math.round(y)]
RoundModifier(this, x, y) == <<Round(x), Round(y)>>

\* (x, y) => [Math.floor(x), Math.floor(y)]
FloorModifier(this, x, y) == <<Floor(x), Floor(y)>>

Modifier(name, this, x, y) ==
    CASE name = "horizontalFlip" -> HorizontalFlipModifier(this, x, y)
      [] name = "verticalFlip"   -> VerticalFlipModifier(this, x, y)
      [] name = "clampCoordinates" -> ClampModifier(this, x, y)
      [] name = "roundCoordinates" -> RoundModifier(this, x, y)
      [] name = "floorCoordinates" -> FloorModifier(this, x, y)

\* a translation that subtracts the offsets
TranslateModifierMinus(dx, dy, mx, my) == <<mx - dx, my - dy>>

\* (mx, my) => [mx + x, my + y], x and y being translate's arguments (dx, dy here)
TranslateModifier(dx, dy, mx, my) == <<mx + dx, my + dy>>

\* a scale that multiplies the coordinate by the factor
ScaleCoordsTimes(scaleX, scaleY, x, y) == <<Times(x, scaleX), Times(y, scaleY)>>

\* (x, y) => this.get(x / scaleX, y / scaleY)
ScaleCoords(scaleX, scaleY, x, y) == <<Quotient(x, scaleX), Quotient(y, scaleY)>>

\* the number NaN: what a % 0 is
NaN == 0 - 999999

\* a % b of JavaScript for b >= 0: the remainder has the sign of a, and a % 0 is NaN
JsRem(a, b) ==
    IF b = 0 \/ a = NaN THEN NaN
    ELSE IF a >= 0 THEN a % b ELSE 0 - ((0 - a) % b)

\* a wrap without the second remainder: x % extent
WrapOnce(c, extent) == JsRem(c, extent)

\* ((x % this.width) + this.width) % this.width
Wrap(c, extent) ==
    LET r == JsRem(c, extent)
    IN  IF r = NaN THEN NaN ELSE JsRem(r + extent, extent)

\* (getX, getY) => this.get(x + getX, y + getY)
CropCoords(p, getX, getY) == <<p.x + getX, p.y + getY>>

\* the test interpolateAs makes: none
IsIntegralNever(x, y) == FALSE

\* Number.isInteger(x) && Number.isInteger(y)
IsIntegral(x, y) == IsInteger(x) /\ IsInteger(y)

\* an axis that is not clamped into the parent's extents
InterpolateAxisUnclamped(extent, c) ==
    LET d == extent + One
        m == c * extent
        unit == d * Den
        floor == (m \div unit) * Den
    IN  [floor |-> floor,
         ceil |-> IF m % unit = 0 THEN floor ELSE floor + One,
         blend |-> <<m % unit, unit>>]

\* one axis of interpolate's getter.  With w = extent / (extent + 1) the product c * w is the
\* fraction n / d of a grid step, d = extent + 1; it is clamped into [0, extent - 1]; floor
\* and ceil are its lattice neighbours; blend is the fraction c % 1, as <<numerator,
\* denominator>>
InterpolateAxis(extent, c) ==
    LET d == extent + One
        n == c * extent
        m == Max(0, Min((extent - One) * d, n))
        unit == d * Den
        floor == (m \div unit) * Den
    IN  [floor |-> floor,
         ceil |-> IF m % unit = 0 THEN floor ELSE floor + One,
         blend |-> <<m % unit, unit>>]

\* the caller's resolver: a function of the corners and the blend factors.  Its result is
\* tagged with ResolverId and carries the numerators of the blend factors; the corners it was
\* handed are the four reads before it
ResolverId == 0 - 2

\* the getter of the test suite's pipe, (x, y) => x + y * 4, as a function of the stub's sample
TestNumber(sample) == sample[3] + sample[4] * 4

\* the tag of a number the test suite's resolver returned
BilinearId == 0 - 3

\* the resolver of the test suite over the numbers of its pipe:
\* topLeft * (1 - blendX) * (1 - blendY) + topRight * blendX * (1 - blendY)
\*   + bottomLeft * (1 - blendX) * blendY + bottomRight * blendX * blendY
\* as <<tag, numerator, denominator, 0>>, exact
BilinearResolver(topLeft, topRight, bottomLeft, bottomRight, blendX, blendY) ==
    LET bx == blendX[1]
        by == blendY[1]
        ux == blendX[2]
        uy == blendY[2]
    IN  <<BilinearId,
          TestNumber(topLeft) * (ux - bx) * (uy - by) + TestNumber(topRight) * bx * (uy - by)
              + TestNumber(bottomLeft) * (ux - bx) * by + TestNumber(bottomRight) * bx * by,
          ux * uy, 0>>

Resolver(name, topLeft, topRight, bottomLeft, bottomRight, blendX, blendY) ==
    IF name = "bilinear"
    THEN BilinearResolver(topLeft, topRight, bottomLeft, bottomRight, blendX, blendY)
    ELSE <<ResolverId, blendX[1], blendY[1], 0>>

\* a left rotation that reads one column too far (this.width - y)
RotateLeftCoordsNoOffset(this, x, y) == <<this.width - y, x>>

\* left: (x, y) => this.get(this.width - y - 1, x)
RotateLeftCoords(this, x, y) == <<this.width - y - One, x>>

\* right: (x, y) => this.get(y, this.height - x - 1)
RotateRightCoords(this, x, y) == <<y, this.height - x - One>>

\* over: (x, y) => this.get(this.width - x - 1, this.height - y - 1)
RotateOverCoords(this, x, y) == <<this.width - x - One, this.height - y - One>>

RotateCoords(direction, this, x, y) ==
    CASE direction = "left"  -> RotateLeftCoords(this, x, y)
      [] direction = "right" -> RotateRightCoords(this, x, y)
      [] direction = "over"  -> RotateOverCoords(this, x, y)

\* horizontalFlipPipe: source.get(source.width - x, y)
HorizontalFlipPipeCoords(source, x, y) == <<source.width - x, y>>

\* a right rotation that stays on the lattice, as the class's does (source.height - x - 1)
RotatePipeRightCoordsLessOne(source, x, y) == <<y, source.height - x - One>>

\* rotatePipe, right: source.get(y, source.height - x)
RotatePipeRightCoords(source, x, y) == <<y, source.height - x>>

\* rotatePipe: left: source.get(source.width - y, x); over: source.get(source.width - x,
\* source.height - y)
RotatePipeCoords(direction, source, x, y) ==
    CASE direction = "left"  -> <<source.width - y, x>>
      [] direction = "right" -> RotatePipeRightCoords(source, x, y)
      [] direction = "over"  -> <<source.width - x, source.height - y>>

\* a test that lets the extent itself through: x > width, y > height
OutOfBoundsInclusive(width, height, x, y) == x < 0 \/ y < 0 \/ x > width \/ y > height

\* x < 0 || y < 0 || x >= width || y >= height
OutOfBounds(width, height, x, y) == x < 0 \/ y < 0 \/ x >= width \/ y >= height

\* an index that uses the wrong stride (y * height + x, x * width + y)
FlatIndexWrongStride(source, width, height, vertical, x, y) ==
    LET scaled == IF vertical THEN Whole(x) * width + y ELSE Whole(y) * height + x
    IN  IF IsInteger(scaled) /\ Whole(scaled) >= 0 /\ Whole(scaled) < Len(source)
        THEN Whole(scaled) + 1
        ELSE 0

\* source[vertical ? x * height + y : y * width + x], for integral x, y; the result is the
\* 1-based position in the sequence, or 0 when the index is no position of the array
FlatIndex(source, width, height, vertical, x, y) ==
    LET scaled == IF vertical THEN Whole(x) * height + y ELSE Whole(y) * width + x
    IN  IF IsInteger(scaled) /\ Whole(scaled) >= 0 /\ Whole(scaled) < Len(source)
        THEN Whole(scaled) + 1
        ELSE 0

\* the indices the getter passes to source[...] on a read at (x0, y0): none when it returns
\* oob before indexing
FlatArrayIndexed(p, x0, y0) ==
    LET x == Floor(x0)
        y == Floor(y0)
    IN  IF OutOfBounds(p.width, p.height, x, y) THEN {}
        ELSE {IF p.vertical THEN Whole(x) * p.height + y ELSE Whole(y) * p.width + x}

\* a getter that does not floor the coordinates
FlatArrayGetUnfloored(p, x0, y0) ==
    LET i == FlatIndex(p.source, p.width, p.height, p.vertical, x0, y0)
        item == IF i = 0 THEN Undefined ELSE p.source[i]
    IN  IF OutOfBounds(p.width, p.height, x0, y0) THEN p.oob
        ELSE IF item = Undefined THEN p.oob ELSE item

FlatArrayGet(p, x0, y0) ==
    LET x == Floor(x0)
        y == Floor(y0)
        i == FlatIndex(p.source, p.width, p.height, p.vertical, x, y)
        item == IF i = 0 THEN Undefined ELSE p.source[i]
    IN  IF OutOfBounds(p.width, p.height, x, y) THEN p.oob
        ELSE IF item = Undefined THEN p.oob ELSE item

\* the last source whose placed rectangle contains (x, y): reverseLive().find(...);
\* 0 when find returns undefined
StackContains(s, x, y) ==
    LET right == s.x + s.pipe.width
        bottom == s.y + s.pipe.height
    IN  x >= s.x /\ y >= s.y /\ x < right /\ y < bottom

\* a search from the front of the array: the first source that contains (x, y)
FindFirst(srcs, i, x, y) ==
    LET hit == {j \in 1 .. i : StackContains(srcs[j], x, y)}
    IN  IF hit = {} THEN 0 ELSE CHOOSE j \in hit : \A k \in hit : j <= k

RECURSIVE FindLast(_, _, _, _)
FindLast(srcs, i, x, y) ==
    IF i = 0 THEN 0
    ELSE IF StackContains(srcs[i], x, y) THEN i
    ELSE FindLast(srcs, i - 1, x, y)

TopSource(srcs, x, y) == FindLast(srcs, Len(srcs), x, y)

\* Math.max(...values); Math.max() of no argument is -Infinity
NegInfinity == 0 - 1000000

RECURSIVE MathMax(_)
MathMax(values) ==
    IF values = << >> THEN NegInfinity
    ELSE LET rest == MathMax(Tail(values))
         IN  IF Head(values) > rest THEN Head(values) ELSE rest

\* a stack as wide and high as its largest source, wherever the sources are placed
StackNoOffsets(srcs, fb) ==
    [kind |-> "stack",
     width |-> MathMax([i \in 1 .. Len(srcs) |-> srcs[i].pipe.width]),
     height |-> MathMax([i \in 1 .. Len(srcs) |-> srcs[i].pipe.height]),
     sources |-> srcs, fallback |-> fb]

Stack(srcs, fb) ==
    [kind |-> "stack",
     width |-> MathMax([i \in 1 .. Len(srcs) |-> srcs[i].pipe.width + srcs[i].x]),
     height |-> MathMax([i \in 1 .. Len(srcs) |-> srcs[i].pipe.height + srcs[i].y]),
     sources |-> srcs, fallback |-> fb]

\* An angle is held as a number of quarter turns q in the unit the caller chose:
\* {asTurns: q / 4}, {asDegrees: 90 * q} or {asRadians: q * pi / 2}.  A number of radians is
\* held as halfPi * (pi / 2) + perPi * (90 * 180 / pi); pi is irrational, so two such numbers
\* are equal exactly when both coefficients are.
\* angleToRadians(angle)
AngleToRadians(angle) ==
    IF angle.unit = "asRadians" THEN [halfPi |-> angle.quarters, perPi |-> 0]
    ELSE IF angle.unit = "asDegrees" THEN [halfPi |-> 0, perPi |-> angle.quarters]
    ELSE [halfPi |-> angle.quarters, perPi |-> 0]

\* the radians whose cosine and sine are whole numbers: the multiples of pi / 2
IsQuarterTurn(radAngle) == radAngle.perPi = 0

\* Math.cos and Math.sin of a multiple of pi / 2
MathCos(radAngle) ==
    LET q == radAngle.halfPi % 4
    IN  IF q = 0 THEN 1 ELSE IF q = 2 THEN 0 - 1 ELSE 0

MathSin(radAngle) ==
    LET q == radAngle.halfPi % 4
    IN  IF q = 1 THEN 1 ELSE IF q = 3 THEN 0 - 1 ELSE 0

\* Math.abs
Abs(x) == IF x < 0 THEN 0 - x ELSE x

\* an origin of rotate(angle, originX, originY): a number, or "centre" (the default)
Centre == [given |-> FALSE, at |-> 0]
Origin(at) == [given |-> TRUE, at |-> at]

\* typeof originX !== "number" ? this.width / 2 : originX (the half is exact when Den is even)
Center(origin, extent) == IF origin.given THEN origin.at ELSE extent \div 2

\* this.rotate(angle, originX, originY), for a multiple of a quarter turn.  Math.cos and
\* Math.sin return the whole numbers above only up to floating-point error unless the angle
\* is 0, so a product that is exactly half-way between two integers may be rounded either
\* way: tieDown tells which way this sampler's error pushes it
RotateAngle(this, angle, originX, originY) ==
    LET radAngle == AngleToRadians(angle)
        cosA == MathCos(radAngle)
        sinA == MathSin(radAngle)
        side == Max(Abs(cosA * this.width) + Abs(sinA * this.height),
                    Abs(sinA * this.width) + Abs(cosA * this.height))
    IN  [kind |-> "rotateAngle", width |-> side, height |-> side, radAngle |-> radAngle,
         cosA |-> cosA, sinA |-> sinA,
         centerX |-> Center(originX, this.width), centerY |-> Center(originY, this.height),
         tieDown |-> FALSE, parent |-> this]

\* Math.round of a sum of products with cosA and sinA
RoundProduct(v, tieDown) ==
    IF tieDown /\ (2 * v) % (2 * Den) = Den THEN Round(v) - One ELSE Round(v)

\* [srcX, srcY] of rotate(angle)'s getter
RotateAngleCoords(p, x, y) ==
    LET dx == x - p.centerX
        dy == y - p.centerY
    IN  <<RoundProduct(dx * p.cosA + dy * p.sinA, p.tieDown) + p.centerX,
          RoundProduct((0 - dx) * p.sinA + dy * p.cosA, p.tieDown) + p.centerY>>

\* a rotation that takes every source coordinate to be inside the parent
RotateAngleMissNever(this, srcX, srcY) == FALSE

\* srcX < 0 || srcX >= this.width || srcY < 0 || srcY >= this.height
RotateAngleMiss(this, srcX, srcY) ==
    srcX < 0 \/ srcX >= this.width \/ srcY < 0 \/ srcY >= this.height

----------------------------------------------------------------------------
(* The blend functions.  A blend factor, an alpha and a channel of a pixel are multiples of   *)
(* 1 / BlendDen, held as the integer numerator; a product of k of them is held over           *)
(* BlendDen^k, so every result below is exact, and each function's result is held over a      *)
(* fixed power of BlendDen whichever branch produced it.                                      *)

BlendDen == 4

BlendOne == BlendDen

\* a bilinear blend with topRight and bottomLeft in each other's place
InterpolateNumbersTransposed(topLeft, topRight, bottomLeft, bottomRight, blendX, blendY) ==
    topLeft * (BlendOne - blendX) * (BlendOne - blendY)
        + bottomLeft * blendX * (BlendOne - blendY)
        + topRight * (BlendOne - blendX) * blendY
        + bottomRight * blendX * blendY

\* topLeft * (1 - blendX) * (1 - blendY) + topRight * blendX * (1 - blendY)
\*   + bottomLeft * (1 - blendX) * blendY + bottomRight * blendX * blendY;
\* the corners are whole numbers, the result is held over BlendDen^2
InterpolateNumbers(topLeft, topRight, bottomLeft, bottomRight, blendX, blendY) ==
    topLeft * (BlendOne - blendX) * (BlendOne - blendY)
        + topRight * blendX * (BlendOne - blendY)
        + bottomLeft * (BlendOne - blendX) * blendY
        + bottomRight * blendX * blendY

\* from + (to - from) * progress; the result is held over BlendDen times from's denominator
BlendNumbers(from, to, progress) == from * BlendOne + (to - from) * progress

\* if (progress == 0) return from; otherwise the four channels blended
BlendRGBA(from, to, progress) ==
    IF progress = 0 THEN [i \in 1 .. 4 |-> from[i] * BlendOne]
    ELSE [i \in 1 .. 4 |-> BlendNumbers(from[i], to[i], progress)]

\* a blend down the columns first: (tl, bl) and (tr, br) by x, then across by y
InterpolateRGBAColumns(tl, tr, bl, br, x, y) ==
    BlendRGBA(BlendRGBA(tl, bl, x), BlendRGBA(tr, br, x), y)

\* blendRGBA(blendRGBA(tl, tr, x), blendRGBA(bl, br, x), y); the channels are whole numbers,
\* the result is held over BlendDen^2
InterpolateRGBA(tl, tr, bl, br, x, y) ==
    BlendRGBA(BlendRGBA(tl, tr, x), BlendRGBA(bl, br, x), y)

\* a compositing that keeps the foreground's alpha
ApplyPixelForegroundAlpha(from, to) ==
    LET toAlpha == to[4]
    IN  IF toAlpha = 0 THEN [i \in 1 .. 4 |-> from[i] * BlendOne]
        ELSE IF toAlpha = BlendOne THEN [i \in 1 .. 4 |-> to[i] * BlendOne]
        ELSE <<BlendNumbers(from[1], to[1], toAlpha), BlendNumbers(from[2], to[2], toAlpha),
               BlendNumbers(from[3], to[3], toAlpha), toAlpha * BlendOne>>

\* applyPixel(from, to); channels and alphas are multiples of 1 / BlendDen, the result is
\* held over BlendDen^2
ApplyPixel(from, to) ==
    LET toAlpha == to[4]
        fromAlpha == from[4]
    IN  IF toAlpha = 0 THEN [i \in 1 .. 4 |-> from[i] * BlendOne]
        ELSE IF toAlpha = BlendOne THEN [i \in 1 .. 4 |-> to[i] * BlendOne]
        ELSE <<BlendNumbers(from[1], to[1], toAlpha), BlendNumbers(from[2], to[2], toAlpha),
               BlendNumbers(from[3], to[3], toAlpha), Max(fromAlpha, toAlpha) * BlendOne>>

\* applyPixel(from, to) where from is an accumulated colour held over den (a power of
\* BlendDen) and to is a pixel held over BlendDen; the result is held over den * BlendDen
ApplyPixelOver(den, from, to) ==
    LET toAlpha == to[4]
        fromAlpha == from[4]
        scale == den \div BlendOne
    IN  IF toAlpha = 0 THEN [i \in 1 .. 4 |-> from[i] * BlendOne]
        ELSE IF toAlpha = BlendOne THEN [i \in 1 .. 4 |-> to[i] * den]
        ELSE <<BlendNumbers(from[1], to[1] * scale, toAlpha),
               BlendNumbers(from[2], to[2] * scale, toAlpha),
               BlendNumbers(from[3], to[3] * scale, toAlpha),
               Max(fromAlpha * BlendOne, toAlpha * den)>>

\* sources.reduce((pr, p) => [Math.max(pr[0], p.width), Math.max(pr[1], p.height)], [0, 0])
ReduceMax(extents) ==
    LET all == {0} \cup {extents[i] : i \in DOMAIN extents}
    IN  CHOOSE m \in all : \A n \in all : m >= n

\* pipeSequence(sources)
PipeSequence(srcs) ==
    [kind |-> "pipeSequence",
     width |-> ReduceMax([i \in 1 .. Len(srcs) |-> srcs[i].width]),
     height |-> ReduceMax([i \in 1 .. Len(srcs) |-> srcs[i].height]),
     sources |-> srcs]

----------------------------------------------------------------------------
(* get(x, y): the value, whether it returned or threw, and the getters of    *)
(* caller-supplied samplers it invoked, in order                              *)

\* the getter a caller hands to the constructor: a function of the coordinates and, when it is
\* not pure, of the outside state it reads (epoch); ids are positive, so no sample is Undefined
StubGetter(id, x, y) == <<id, epoch, x, y>>

RECURSIVE Get(_, _, _)

\* the initial value of the reduce: [0, 0, 0, 0], held over BlendDen
SequenceInitial == [ok |-> TRUE, val |-> <<0, 0, 0, 0>>, den |-> BlendOne, reads |-> << >>]

\* sources.reduce((r, p) => applyPixel(r, p.get(x, y)), [0, 0, 0, 0]) over the first n sources:
\* the colour, the power of BlendDen it is held over, and the getters invoked
RECURSIVE SequenceFold(_, _, _, _)
SequenceFold(srcs, n, x, y) ==
    IF n = 0 THEN SequenceInitial
    ELSE LET r == SequenceFold(srcs, n - 1, x, y)
             p == Get(srcs[n], x, y)
         IN  IF ~r.ok THEN r
             ELSE IF ~p.ok THEN [r EXCEPT !.ok = FALSE, !.reads = r.reads \o p.reads]
             ELSE [ok |-> TRUE, val |-> ApplyPixelOver(r.den, r.val, p.val),
                   den |-> r.den * BlendOne, reads |-> r.reads \o p.reads]

\* a reduce that visits the sources from the last to the first
PipeSequenceGetReversed(p, x, y) ==
    LET n == Len(p.sources)
    IN  SequenceFold([i \in 1 .. n |-> p.sources[n + 1 - i]], n, x, y)

\* the get of pipeSequence(sources)
PipeSequenceGet(p, x, y) == SequenceFold(p.sources, Len(p.sources), x, y)

Get(p, x, y) ==
    CASE p.kind = "stub" -> Ok(StubGetter(p.id, x, y), << <<p.id, x, y>> >>)
      [] p.kind = "flat" -> Ok(FlatArrayGet(p, x, y), << >>)
      [] p.kind = "mapCoordinates" ->
            LET m == IF p.modifier = "translate" THEN TranslateModifier(p.dx, p.dy, x, y)
                     ELSE Modifier(p.modifier, p.parent, x, y)
            IN  Get(p.parent, m[1], m[2])
      [] p.kind = "rotate" ->
            LET m == RotateCoords(p.direction, p.parent, x, y)
            IN  Get(p.parent, m[1], m[2])
      [] p.kind = "rotateAngle" ->
            LET m == RotateAngleCoords(p, x, y)
            IN  IF RotateAngleMiss(p.parent, m[1], m[2]) THEN Ok(Undefined, << >>)
                ELSE Get(p.parent, m[1], m[2])
      [] p.kind = "horizontalFlipPipe" ->
            LET m == HorizontalFlipPipeCoords(p.parent, x, y)
            IN  Get(p.parent, m[1], m[2])
      [] p.kind = "rotatePipe" ->
            LET m == RotatePipeCoords(p.direction, p.parent, x, y)
            IN  Get(p.parent, m[1], m[2])
      [] p.kind = "strict" ->
            IF OutOfBounds(p.parent.width, p.parent.height, x, y)
            THEN Thrown(<< >>)
            ELSE Get(p.parent, x, y)
      [] p.kind = "stack" ->
            LET i == TopSource(p.sources, x, y)
            IN  IF i = 0 THEN Ok(p.fallback, << >>)
                ELSE Get(p.sources[i].pipe, x - p.sources[i].x, y - p.sources[i].y)
      [] p.kind = "pipeSequence" ->
            LET f == PipeSequenceGet(p, x, y)
            IN  IF f.ok THEN Ok(f.val, f.reads) ELSE Thrown(f.reads)
      [] p.kind = "scale" ->
            LET m == ScaleCoords(p.scaleX, p.scaleY, x, y)
            IN  Get(p.parent, m[1], m[2])
      [] p.kind = "loop" ->
            Get(p.parent, Wrap(x, p.parent.width), Wrap(y, p.parent.height))
      [] p.kind = "oob" ->
            IF OutOfBounds(p.parent.width, p.parent.height, x, y)
            THEN Ok(p.value, << >>)
            ELSE Get(p.parent, x, y)
      [] p.kind = "crop" ->
            LET m == CropCoords(p, x, y)
            IN  Get(p.parent, m[1], m[2])
      [] p.kind = "interpolate" ->
            IF p.direct /\ IsIntegral(x, y) THEN Get(p.parent, x, y)
            ELSE LET ax == InterpolateAxis(p.parent.width, x)
                     ay == InterpolateAxis(p.parent.height, y)
                     topLeft == Get(p.parent, ax.floor, ay.floor)
                     topRight == Get(p.parent, ax.ceil, ay.floor)
                     bottomLeft == Get(p.parent, ax.floor, ay.ceil)
                     bottomRight == Get(p.parent, ax.ceil, ay.ceil)
                     r1 == topLeft.reads
                     r2 == r1 \o topRight.reads
                     r3 == r2 \o bottomLeft.reads
                     r4 == r3 \o bottomRight.reads
                 IN  IF ~topLeft.ok THEN Thrown(r1)
                     ELSE IF ~topRight.ok THEN Thrown(r2)
                     ELSE IF ~bottomLeft.ok THEN Thrown(r3)
                     ELSE IF ~bottomRight.ok THEN Thrown(r4)
                     ELSE Ok(Resolver(p.resolver, topLeft.val, topRight.val, bottomLeft.val,
                                      bottomRight.val, ax.blend, ay.blend),
                             r4 \o << <<ResolverId, ax.blend[1], ay.blend[1]>> >>)

----------------------------------------------------------------------------
(* withCache: the getter's steps on columnsMap and count *)

\* the coordinates the cached sampler is read at, around a 1 by 1 parent: left of it, at its
\* origin, and at a fraction of a unit along x and along y
CacheCoords == {<<0 - 1, 0>>, <<0, 0>>, <<1, 0>>, <<0, 1>>}

NoHist == [c \in CacheCoords |-> [reads |-> 0, returned |-> 0, calls |-> 0]]

NoContext == [ageMs |-> 0, value |-> Undefined, cacheSize |-> 0, x |-> 0, y |-> 0]

NoCacheRes ==
    [op |-> "none", x |-> 0, y |-> 0, ret |-> Ok(Undefined, << >>), hit |-> FALSE,
     consulted |-> 0, context |-> NoContext, answer |-> FALSE, parentCalls |-> 0]

\* a key that forgets the fraction of the coordinate
MapKeyFloored(k) == Floor(k)

\* Map keys are the coordinates themselves
MapKey(k) == k

\* if (columnsMap.has(x)) ... else { columnMap = new Map(); columnsMap.set(x, columnMap) }
EnsureColumn(map, x) ==
    IF MapKey(x) \in DOMAIN map THEN map
    ELSE [k \in DOMAIN map \cup {MapKey(x)} |-> IF k \in DOMAIN map THEN map[k] ELSE << >>]

\* columnMap.has(y)
HasItem(map, x, y) == MapKey(x) \in DOMAIN map /\ MapKey(y) \in DOMAIN map[MapKey(x)]

\* a store that starts the column afresh
ColumnSetFresh(map, x, y, item) ==
    [map EXCEPT ![MapKey(x)] = [k \in {MapKey(y)} |-> item]]

\* columnMap.set(y, {time, value})
ColumnSet(map, x, y, item) ==
    [map EXCEPT ![MapKey(x)] =
        [k \in DOMAIN @ \cup {MapKey(y)} |-> IF k = MapKey(y) THEN item ELSE @[k]]]

\* a test that keeps the entry only when an invalidator approves it
ReturnCachedNeedsInvalidator(hasInvalidator, answer) == hasInvalidator /\ ~answer

\* a test that never asks the invalidator
ReturnCachedAlways(hasInvalidator, answer) == TRUE

\* !invalidator || !invalidator({...})
ReturnCached(hasInvalidator, answer) == ~hasInvalidator \/ ~answer

\* {ageMs: Date.now() - item.time, value: item.value, cacheSize: count, x, y}
InvalidatorContext(item, x, y) ==
    [ageMs |-> now - item.time, value |-> item.value, cacheSize |-> count, x |-> x, y |-> y]

\* one call of the getter withCache returns, the invalidator answering `answer` if asked:
\* the new columnsMap and count, what is returned or thrown, and what was called on the way
WithCacheGet(x, y, answer) ==
    LET map1 == EnsureColumn(columnsMap, x)
        hit == HasItem(map1, x, y)
        item == map1[MapKey(x)][MapKey(y)]
        asked == hit /\ invalidator
        out == [map |-> map1, count |-> count, ret |-> Ok(Undefined, << >>), hit |-> hit,
                consulted |-> IF asked THEN 1 ELSE 0,
                context |-> IF asked THEN InvalidatorContext(item, x, y) ELSE NoContext,
                answer |-> asked /\ answer, parentCalls |-> 0]
    IN  IF hit /\ ReturnCached(invalidator, answer)
        THEN [out EXCEPT !.ret = Ok(item.value, << >>)]
        ELSE LET count1 == IF hit THEN count ELSE count + 1
                 value == Get(parent, x, y)
             IN  IF value.ok
                 THEN [out EXCEPT !.map = ColumnSet(map1, x, y,
                                                    [time |-> now, value |-> value.val]),
                                  !.count = count1, !.ret = value, !.parentCalls = 1]
                 ELSE [out EXCEPT !.count = count1, !.ret = value, !.parentCalls = 1]

----------------------------------------------------------------------------
(* Exports *)

\* for (let y = 0; y < height; y++) column.push(this.get(x, y))
RECURSIVE ColumnLoop(_, _, _)
ColumnLoop(this, x, y) ==
    IF y < this.height
    THEN <<Get(this, x, y).val>> \o ColumnLoop(this, x, y + One)
    ELSE << >>

\* for (let x = 0; x < width; x++) columns.push(column)
RECURSIVE ColumnsLoop(_, _)
ColumnsLoop(this, x) ==
    IF x < this.width
    THEN <<ColumnLoop(this, x, 0)>> \o ColumnsLoop(this, x + One)
    ELSE << >>

ToArrayXY(this) == ColumnsLoop(this, 0)

ToArrayYX(this) == ToArrayXY(HorizontalFlip(Rotate(this, "left")))

\* for (let x = 0; x < width; x++) array.push(this.get(x, y))
RECURSIVE FlatRowLoop(_, _, _)
FlatRowLoop(this, x, y) ==
    IF x < this.width
    THEN <<Get(this, x, y).val>> \o FlatRowLoop(this, x + One, y)
    ELSE << >>

\* for (let y = 0; y < height; y++) ...
RECURSIVE FlatLoop(_, _)
FlatLoop(this, y) ==
    IF y < this.height
    THEN FlatRowLoop(this, 0, y) \o FlatLoop(this, y + One)
    ELSE << >>

ToFlatArrayXY(this) == FlatLoop(this, 0)

ToFlatArrayYX(this) == ToFlatArrayXY(HorizontalFlip(Rotate(this, "left")))

\* the function-style library: exportPipeXY(source), the loops of toArrayXY
ExportPipeXY(source) == ColumnsLoop(source, 0)

\* the function-style library: exportPipeYX(source)
ExportPipeYX(source) == ExportPipeXY(HorizontalFlipPipe(RotatePipe(source, "right")))

\* the getters toFlatArrayXY invokes, in order: this.get(x, y) in the inner loop
RECURSIVE FlatRowReads(_, _, _)
FlatRowReads(this, x, y) ==
    IF x < this.width
    THEN Get(this, x, y).reads \o FlatRowReads(this, x + One, y)
    ELSE << >>

\* ... and in the outer loop
RECURSIVE FlatReads(_, _)
FlatReads(this, y) ==
    IF y < this.height
    THEN FlatRowReads(this, 0, y) \o FlatReads(this, y + One)
    ELSE << >>

\* this.stash(): Pipe2D.fromFlatArrayXY(this.toFlatArrayXY(), this.width, this.height)
Stash(this) == FromFlatArrayXY(ToFlatArrayXY(this), this.width, this.height, Undefined)

----------------------------------------------------------------------------
(* SpecPipe: a sampler is built from a leaf by flips and rotations, read and exported *)

RECURSIVE Depth(_)
Depth(p) == IF p.kind = "stub" THEN 0 ELSE 1 + Depth(p.parent)

Directions == {"left", "right", "over"}

NoRes == [op |-> "none", x |-> 0, y |-> 0, ret |-> Ok(Undefined, << >>), arr |-> << >>]

NoBlend == [op |-> "none", args |-> << >>, out |-> << >>]

BlendIdle == blend = NoBlend

StackIdle == sources = << >> /\ fallback = Undefined /\ sres = NoRes

CacheIdle ==
    /\ parent = Stub(1, 0, 0) /\ epoch = 0 /\ pure = TRUE /\ invalidator = FALSE
    /\ columnsMap = << >> /\ count = 0 /\ now = 0 /\ hist = NoHist /\ steps = 0
    /\ cres = NoCacheRes

InitPipe ==
    /\ \E w \in 0 .. MaxW, h \in 0 .. MaxW : base = Stub(1, Num(w), Num(h))
    /\ cur = base
    /\ res = NoRes
    /\ StackIdle
    /\ CacheIdle
    /\ BlendIdle

ApplyHorizontalFlip ==
    /\ Depth(cur) < MaxDepth
    /\ cur' = HorizontalFlip(cur)
    /\ res' = NoRes
    /\ UNCHANGED <<base, stackVars, cacheVars, blendVars>>

ApplyVerticalFlip ==
    /\ Depth(cur) < MaxDepth
    /\ cur' = VerticalFlip(cur)
    /\ res' = NoRes
    /\ UNCHANGED <<base, stackVars, cacheVars, blendVars>>

ApplyRotate ==
    /\ Depth(cur) < MaxDepth
    /\ \E direction \in Directions : cur' = Rotate(cur, direction)
    /\ res' = NoRes
    /\ UNCHANGED <<base, stackVars, cacheVars, blendVars>>

DoGet ==
    /\ res = NoRes
    /\ \E x \in Coords, y \in Coords :
          res' = [op |-> "get", x |-> x, y |-> y, ret |-> Get(cur, x, y), arr |-> << >>]
    /\ UNCHANGED <<base, cur, stackVars, cacheVars, blendVars>>

DoToArrayXY ==
    /\ res = NoRes
    /\ res' = [NoRes EXCEPT !.op = "toArrayXY", !.arr = ToArrayXY(cur)]
    /\ UNCHANGED <<base, cur, stackVars, cacheVars, blendVars>>

DoToArrayYX ==
    /\ res = NoRes
    /\ res' = [NoRes EXCEPT !.op = "toArrayYX", !.arr = ToArrayYX(cur)]
    /\ UNCHANGED <<base, cur, stackVars, cacheVars, blendVars>>

DoToFlatArrayXY ==
    /\ res = NoRes
    /\ res' = [NoRes EXCEPT !.op = "toFlatArrayXY", !.arr = ToFlatArrayXY(cur)]
    /\ UNCHANGED <<base, cur, stackVars, cacheVars, blendVars>>

DoToFlatArrayYX ==
    /\ res = NoRes
    /\ res' = [NoRes EXCEPT !.op = "toFlatArrayYX", !.arr = ToFlatArrayYX(cur)]
    /\ UNCHANGED <<base, cur, stackVars, cacheVars, blendVars>>

\* the function-style library's exportPipeYX on the sampler
DoExportPipeYX ==
    /\ res = NoRes
    /\ res' = [NoRes EXCEPT !.op = "exportPipeYX", !.arr = ExportPipeYX(cur)]
    /\ UNCHANGED <<base, cur, stackVars, cacheVars, blendVars>>

NextPipe ==
    \/ ApplyHorizontalFlip
    \/ ApplyVerticalFlip
    \/ ApplyRotate
    \/ DoGet
    \/ DoToArrayXY
    \/ DoToArrayYX
    \/ DoToFlatArrayXY
    \/ DoToFlatArrayYX
    \/ DoExportPipeYX

SpecPipe == InitPipe /\ [][NextPipe]_vars

----------------------------------------------------------------------------
(* SpecStack: Pipe2D.stack(sources, fallback) is built and read *)

PipeIdle == base = Stub(1, 0, 0) /\ cur = base /\ res = NoRes

\* a source: a caller's sampler of 1..MaxW by 1, placed at a whole, fractional or negative offset
StackWidths == {Num(w) : w \in 1 .. MaxW}
StackOffsetsX == {0 - 1, 0, One}
StackOffsetsY == {0, One}
StackXs == (0 - One) .. (Num(MaxW) + One)
StackYs == (0 - 1) .. Num(2)

InitStack ==
    /\ \E n \in 0 .. MaxSources :
         \E f \in [1 .. n -> StackWidths \X StackOffsetsX \X StackOffsetsY] :
            sources = [i \in 1 .. n |->
                          [pipe |-> Stub(i, f[i][1], One), x |-> f[i][2], y |-> f[i][3]]]
    /\ fallback = <<-1, 0, 0, 0>>
    /\ sres = NoRes
    /\ PipeIdle
    /\ CacheIdle
    /\ BlendIdle

StackGet ==
    /\ sres = NoRes
    /\ \E x \in StackXs, y \in StackYs :
          sres' = [NoRes EXCEPT !.op = "get", !.x = x, !.y = y,
                                !.ret = Get(Stack(sources, fallback), x, y)]
    /\ UNCHANGED <<sources, fallback, pipeVars, cacheVars, blendVars>>

NextStack == StackGet

SpecStack == InitStack /\ [][NextStack]_vars

----------------------------------------------------------------------------
(* SpecCache: P.withCache(invalidator?) is read; the clock advances; a parent whose getter  *)
(* is not pure changes what it returns                                                     *)

InitCache ==
    /\ parent \in {Stub(1, One, One), Strict(Stub(1, One, One))}
    /\ pure \in BOOLEAN
    /\ invalidator \in BOOLEAN
    /\ epoch = 0
    /\ columnsMap = << >>
    /\ count = 0
    /\ now = 0
    /\ hist = NoHist
    /\ steps = 0
    /\ cres = NoCacheRes
    /\ PipeIdle
    /\ StackIdle
    /\ BlendIdle

CacheGet ==
    /\ steps < MaxReads
    /\ \E c \in CacheCoords, answer \in BOOLEAN :
          LET x == c[1]
              y == c[2]
              o == WithCacheGet(x, y, answer)
          IN  /\ columnsMap' = o.map
              /\ count' = o.count
              /\ cres' = [op |-> "get", x |-> x, y |-> y, ret |-> o.ret, hit |-> o.hit,
                          consulted |-> o.consulted, context |-> o.context,
                          answer |-> o.answer, parentCalls |-> o.parentCalls]
              /\ hist' = [hist EXCEPT ![<<x, y>>] =
                            [reads |-> @.reads + 1,
                             returned |-> @.returned + (IF o.ret.ok THEN 1 ELSE 0),
                             calls |-> @.calls + o.parentCalls]]
    /\ steps' = steps + 1
    /\ UNCHANGED <<parent, epoch, pure, invalidator, now, pipeVars, stackVars, blendVars>>

\* Date.now() moves on (while reads are still to come)
Tick ==
    /\ now < MaxNow
    /\ steps < MaxReads
    /\ now' = now + 1
    /\ UNCHANGED <<parent, epoch, pure, invalidator, columnsMap, count, hist, steps, cres,
                   pipeVars, stackVars, blendVars>>

\* the state a non-pure parent getter reads changes (while reads are still to come)
ParentChange ==
    /\ ~pure
    /\ steps < MaxReads
    /\ epoch' = 1 - epoch
    /\ UNCHANGED <<parent, pure, invalidator, columnsMap, count, now, hist, steps, cres,
                   pipeVars, stackVars, blendVars>>

NextCache ==
    \/ CacheGet
    \/ Tick
    \/ ParentChange

SpecCache == InitCache /\ [][NextCache]_vars

----------------------------------------------------------------------------
(* SpecComb: one combinator is applied to a leaf sampler and the result is read *)

CombOffsets == {0 - One, 0, 1, One}
ScaleFactors == {1, One, Num(2)}
CombCoords == (0 - Num(2)) .. (Num(MaxW) + One)
CropOrigins == {0, 1, One}
CropExtents == {One, Num(2)}

\* the reads the number grid can follow: a scaled sampler divides the coordinates
Readable(p, x, y) ==
    p.kind = "scale" => IsOnGrid(x, p.scaleX) /\ IsOnGrid(y, p.scaleY)

\* the resolvers handed to interpolate: any function (the stub), and the test suite's
Resolvers == {"stub", "bilinear"}

\* the leaves: 0..MaxW by 0..MaxW, and the 4 by 4 pipe of the test suite
InitComb ==
    /\ \/ \E w \in 0 .. MaxW, h \in 0 .. MaxW : base = Stub(1, Num(w), Num(h))
       \/ base = Stub(1, Num(4), Num(4))
    /\ cur = base
    /\ res = NoRes
    /\ StackIdle
    /\ CacheIdle
    /\ BlendIdle

ApplyTranslate ==
    /\ cur = base
    /\ \E x \in CombOffsets, y \in CombOffsets : cur' = Translate(cur, x, y)
    /\ res' = NoRes
    /\ UNCHANGED <<base, stackVars, cacheVars, blendVars>>

ApplyScale ==
    /\ cur = base
    /\ \E scaleX \in ScaleFactors, scaleY \in ScaleFactors : cur' = Scale(cur, scaleX, scaleY)
    /\ res' = NoRes
    /\ UNCHANGED <<base, stackVars, cacheVars, blendVars>>

\* loop(): reportedWidth = this.width, reportedHeight = this.height
ApplyLoop ==
    /\ cur = base
    /\ cur' = Loop(cur, cur.width, cur.height)
    /\ res' = NoRes
    /\ UNCHANGED <<base, stackVars, cacheVars, blendVars>>

ApplyInterpolate ==
    /\ cur = base
    /\ \E resolver \in Resolvers : cur' = Interpolate(cur, resolver)
    /\ res' = NoRes
    /\ UNCHANGED <<base, stackVars, cacheVars, blendVars>>

ApplyInterpolateAs ==
    /\ cur = base
    /\ \E resolver \in Resolvers : cur' = InterpolateAs(cur, resolver)
    /\ res' = NoRes
    /\ UNCHANGED <<base, stackVars, cacheVars, blendVars>>

ApplyStrict ==
    /\ cur = base
    /\ cur' = Strict(cur)
    /\ res' = NoRes
    /\ UNCHANGED <<base, stackVars, cacheVars, blendVars>>

ApplyOob ==
    /\ cur = base
    /\ cur' = Oob(cur, <<0 - 1, 0, 0, 0>>)
    /\ res' = NoRes
    /\ UNCHANGED <<base, stackVars, cacheVars, blendVars>>

ApplyCrop ==
    /\ cur = base
    /\ \E x \in CropOrigins, y \in CropOrigins, width \in CropExtents, height \in CropExtents :
          cur' = Crop(cur, x, y, width, height)
    /\ res' = NoRes
    /\ UNCHANGED <<base, stackVars, cacheVars, blendVars>>

ApplyClampCoordinates ==
    /\ cur = base
    /\ cur' = ClampCoordinates(cur)
    /\ res' = NoRes
    /\ UNCHANGED <<base, stackVars, cacheVars, blendVars>>

ApplyRoundCoordinates ==
    /\ cur = base
    /\ cur' = RoundCoordinates(cur)
    /\ res' = NoRes
    /\ UNCHANGED <<base, stackVars, cacheVars, blendVars>>

ApplyFloorCoordinates ==
    /\ cur = base
    /\ cur' = FloorCoordinates(cur)
    /\ res' = NoRes
    /\ UNCHANGED <<base, stackVars, cacheVars, blendVars>>

\* the angles handed to rotate: whole quarter turns, in turns, in radians, and 0 degrees
RotateAngles ==
    {[unit |-> "asTurns", quarters |-> q] : q \in 0 .. 3}
        \cup {[unit |-> "asRadians", quarters |-> 1], [unit |-> "asDegrees", quarters |-> 0]}

\* the origins handed to rotate: omitted (the centre), the corner, a point off the lattice
RotateOrigins == {<<Centre, Centre>>, <<Origin(0), Origin(0)>>, <<Origin(One), Origin(1)>>}

\* rotate(angle, originX, originY) on the leaf or on its strict() wrapper
ApplyRotateAngle ==
    /\ cur = base \/ cur = Strict(base)
    /\ \E angle \in RotateAngles, origin \in RotateOrigins, tieDown \in BOOLEAN :
          /\ IsQuarterTurn(AngleToRadians(angle))
          /\ tieDown => AngleToRadians(angle).halfPi # 0
          /\ cur' = [RotateAngle(cur, angle, origin[1], origin[2]) EXCEPT !.tieDown = tieDown]
    /\ res' = NoRes
    /\ UNCHANGED <<base, stackVars, cacheVars, blendVars>>

CombGet ==
    /\ res = NoRes
    /\ \E x \in CombCoords, y \in CombCoords :
          /\ Readable(cur, x, y)
          /\ res' = [op |-> "get", x |-> x, y |-> y, ret |-> Get(cur, x, y), arr |-> << >>]
    /\ UNCHANGED <<base, cur, stackVars, cacheVars, blendVars>>

NextComb ==
    \/ ApplyTranslate
    \/ ApplyScale
    \/ ApplyLoop
    \/ ApplyInterpolate
    \/ ApplyInterpolateAs
    \/ ApplyStrict
    \/ ApplyOob
    \/ ApplyCrop
    \/ ApplyClampCoordinates
    \/ ApplyRoundCoordinates
    \/ ApplyFloorCoordinates
    \/ ApplyRotateAngle
    \/ CombGet

SpecComb == InitComb /\ [][NextComb]_vars

----------------------------------------------------------------------------
(* SpecBlend: the blend functions are called *)

PipesIdle == PipeIdle /\ StackIdle /\ CacheIdle

CornerValues == {0 - 1, 1, 2, 3, 4}
BlendFactors == 0 .. BlendOne
\* red, green, blue, yellow and transparent black, on the 0..255 scale
Colours == {<<255, 0, 0, 255>>, <<0, 255, 0, 255>>, <<0, 0, 255, 255>>, <<255, 255, 0, 255>>,
            <<0, 0, 0, 0>>}
\* pixels on the 0..1 scale: alphas from 0 to 1 and one above 1
Pixels == {<<r, g, 1, a>> : r \in {0, 1, BlendOne}, g \in {0, BlendOne}, a \in 0 .. (BlendOne + 1)}

InitBlend ==
    /\ blend = NoBlend
    /\ PipesIdle

DoInterpolateNumbers ==
    /\ blend.op = "none"
    /\ \E tl \in CornerValues, tr \in CornerValues, bl \in CornerValues, br \in CornerValues,
          x \in BlendFactors, y \in BlendFactors :
          blend' = [op |-> "interpolateNumbers", args |-> <<tl, tr, bl, br, x, y>>,
                    out |-> InterpolateNumbers(tl, tr, bl, br, x, y)]
    /\ UNCHANGED <<pipeVars, stackVars, cacheVars>>

DoInterpolateRGBA ==
    /\ blend.op = "none"
    /\ \E tl \in Colours, tr \in Colours, bl \in Colours, br \in Colours,
          x \in BlendFactors, y \in BlendFactors :
          blend' = [op |-> "interpolateRGBA", args |-> <<tl, tr, bl, br, x, y>>,
                    out |-> InterpolateRGBA(tl, tr, bl, br, x, y)]
    /\ UNCHANGED <<pipeVars, stackVars, cacheVars>>

DoApplyPixel ==
    /\ blend.op = "none"
    /\ \E from \in Pixels, to \in Pixels :
          blend' = [op |-> "applyPixel", args |-> <<from, to>>, out |-> ApplyPixel(from, to)]
    /\ UNCHANGED <<pipeVars, stackVars, cacheVars>>

\* the angles handed to angleToRadians: 0..4 quarter turns, in each of the three units
AngleUnits == {"asTurns", "asDegrees", "asRadians"}
AngleQuarters == 0 .. 4

DoAngleToRadians ==
    /\ blend.op = "none"
    /\ \E unit \in AngleUnits, quarters \in AngleQuarters :
          LET angle == [unit |-> unit, quarters |-> quarters]
          IN  blend' = [op |-> "angleToRadians", args |-> <<angle>>,
                        out |-> AngleToRadians(angle)]
    /\ UNCHANGED <<pipeVars, stackVars, cacheVars>>

NextBlend ==
    \/ DoInterpolateNumbers
    \/ DoInterpolateRGBA
    \/ DoApplyPixel
    \/ DoAngleToRadians

SpecBlend == InitBlend /\ [][NextBlend]_vars

----------------------------------------------------------------------------
(* SpecFlat: Pipe2D.fromFlatArrayXY / fromFlatArrayYX are built over an array and read *)

FlatExtents == {0, One, Num(2)}
FlatCoords == (0 - One) .. (Num(2) + One)

\* the element an array holds at position i, when it holds one
FlatItem(i) == <<9, 0, i, 0>>

\* the arrays handed in: of any length up to one more than width * height, each element
\* present or undefined (a hole)
FlatSources(width, height) ==
    UNION {[1 .. n -> BOOLEAN] : n \in 0 .. (Whole(width) * Whole(height) + 1)}

InitFlat ==
    /\ \E width \in FlatExtents, height \in FlatExtents, vertical \in BOOLEAN,
          fb \in {Undefined, <<0 - 1, 0, 0, 0>>} :
          \E filled \in FlatSources(width, height) :
              LET source == [i \in DOMAIN filled |-> IF filled[i] THEN FlatItem(i) ELSE Undefined]
              IN  base = IF vertical THEN FromFlatArrayYX(source, width, height, fb)
                         ELSE FromFlatArrayXY(source, width, height, fb)
    /\ cur = base
    /\ res = NoRes
    /\ StackIdle
    /\ CacheIdle
    /\ BlendIdle

FlatGet ==
    /\ res = NoRes
    /\ \E x \in FlatCoords, y \in FlatCoords :
          res' = [op |-> "get", x |-> x, y |-> y, ret |-> Get(cur, x, y), arr |-> << >>]
    /\ UNCHANGED <<base, cur, stackVars, cacheVars, blendVars>>

NextFlat == FlatGet

SpecFlat == InitFlat /\ [][NextFlat]_vars

----------------------------------------------------------------------------
----------------------------------------------------------------------------
(* SpecSeq: pipeSequence(sources) is built over samplers of pixels and read *)

\* the pixels of the sources: transparent, translucent and opaque, of two reds
SeqPixels == {<<r, 0, 1, a>> : r \in {0, BlendOne}, a \in {0, 1, BlendOne}}
\* the pixel a source answers with outside its extents: transparent
SeqOutside == <<0, 0, 1, 0>>
SeqWidths == {Num(w) : w \in 1 .. MaxW}
SeqXs == {0, 1} \cup {Num(w) : w \in 1 .. MaxW}

\* a source: a row of one pixel repeated, 1..MaxW wide
InitSeq ==
    /\ \E n \in 0 .. MaxSources :
         \E f \in [1 .. n -> SeqPixels \X SeqWidths] :
            sources = [i \in 1 .. n |->
                          FromFlatArrayXY([k \in 1 .. Whole(f[i][2]) |-> f[i][1]], f[i][2], One,
                                          SeqOutside)]
    /\ fallback = Undefined
    /\ sres = NoRes
    /\ PipeIdle
    /\ CacheIdle
    /\ BlendIdle

SeqGet ==
    /\ sres = NoRes
    /\ \E x \in SeqXs :
          sres' = [NoRes EXCEPT !.op = "get", !.x = x, !.y = 0,
                                !.ret = Get(PipeSequence(sources), x, 0)]
    /\ UNCHANGED <<sources, fallback, pipeVars, cacheVars, blendVars>>

NextSeq == SeqGet

SpecSeq == InitSeq /\ [][NextSeq]_vars
----------------------------------------------------------------------------
(* SpecStash: P.stash() is taken of a leaf whose getter is not pure; the leaf changes what  *)
(* it returns; the stash is read                                                            *)

\* the extents of the leaf: none, whole, and a fraction of a unit more than one
StashExtents == {0, One, One + 1, Num(2)}
StashCoords == (0 - 1) .. (Num(2) + 1)

InitStash ==
    /\ \E w \in StashExtents, h \in StashExtents : base = Stub(1, w, h)
    /\ cur = base
    /\ res = NoRes
    /\ StackIdle
    /\ CacheIdle
    /\ BlendIdle

\* P.stash(): the outcome holds the getters invoked during the call
DoStash ==
    /\ cur = base
    /\ cur' = Stash(base)
    /\ res' = [NoRes EXCEPT !.op = "stash", !.ret = Ok(Undefined, FlatReads(base, 0))]
    /\ UNCHANGED <<base, stackVars, cacheVars, blendVars>>

\* the state the leaf's getter reads changes after the stash was taken
StashParentChange ==
    /\ cur # base
    /\ epoch' = 1 - epoch
    /\ UNCHANGED <<pipeVars, stackVars, parent, pure, invalidator, columnsMap, count, now,
                   hist, steps, cres, blendVars>>

StashGet ==
    /\ cur # base
    /\ \E x \in StashCoords, y \in StashCoords :
          res' = [op |-> "get", x |-> x, y |-> y, ret |-> Get(cur, x, y), arr |-> << >>]
    /\ UNCHANGED <<base, cur, stackVars, cacheVars, blendVars>>

NextStash ==
    \/ DoStash
    \/ StashParentChange
    \/ StashGet

SpecStash == InitStash /\ [][NextStash]_vars
(* Claims on the exports, rotations and flips (SpecPipe) *)

Fallbacks == {Undefined, <<-1, 0, 0, 0>>}

InRange(p, x, y) == ~OutOfBounds(p.width, p.height, x, y)

C7_ToArrayYXLayout ==
    res.op = "toArrayYX" =>
        /\ Len(res.arr) = Whole(cur.height)
        /\ \A y \in Lattice(cur.height) :
              /\ Len(res.arr[Whole(y) + 1]) = Whole(cur.width)
              /\ \A x \in Lattice(cur.width) :
                    res.arr[Whole(y) + 1][Whole(x) + 1] = Get(cur, x, y).val

\* C8: toFlatArrayYX() has width*height elements, toFlatArrayYX()[x*height + y] = P.get(x, y)
\* at every integral in-range (x, y), and fromFlatArrayYX(array, P.width, P.height) reads
\* P.get(x, y) back.
C8_ToFlatArrayYXLayout ==
    res.op = "toFlatArrayYX" =>
        /\ Len(res.arr) = Whole(cur.width) * Whole(cur.height)
        /\ \A x \in Lattice(cur.width), y \in Lattice(cur.height) :
              /\ res.arr[Whole(x) * Whole(cur.height) + Whole(y) + 1] = Get(cur, x, y).val
              /\ Get(FromFlatArrayYX(res.arr, cur.width, cur.height, Undefined), x, y).val
                    = Get(cur, x, y).val

IsRotateOf(p, direction) == p.kind = "rotate" /\ p.direction = direction

IsRightThenLeft(p) == IsRotateOf(p, "left") /\ IsRotateOf(p.parent, "right")

IsOverThenOver(p) == IsRotateOf(p, "over") /\ IsRotateOf(p.parent, "over")

\* the sampler two combinators below p, and whether p reads it like itself at the last read
SameAsGrandparent(p) ==
    /\ p.width = p.parent.parent.width
    /\ p.height = p.parent.parent.height
    /\ res.op = "get" => res.ret = Get(p.parent.parent, res.x, res.y)

\* C9: rotation closure.  P.rotate("right").rotate("left") and P.rotate("over").rotate("over")
\* have P's width and height, and a read of them at (x, y) is a read of P at (x, y): the same
\* parent coordinate is read and the same value returned (at every coordinate, in range or not).
C9_RotationClosure ==
    (IsRightThenLeft(cur) \/ IsOverThenOver(cur)) => SameAsGrandparent(cur)

C9_Witness ==
    /\ IsRightThenLeft(cur)
    /\ res.op = "get" /\ InRange(cur, res.x, res.y)
    /\ cur.width = Num(2) /\ cur.height = One
    /\ res.x = One /\ ~IsInteger(res.y)
    /\ res.ret.val = <<1, 0, res.x, res.y>>

IsFlipOf(p, name) == p.kind = "mapCoordinates" /\ p.modifier = name

IsFlippedTwice(p) ==
    \/ IsFlipOf(p, "horizontalFlip") /\ IsFlipOf(p.parent, "horizontalFlip")
    \/ IsFlipOf(p, "verticalFlip") /\ IsFlipOf(p.parent, "verticalFlip")

\* C10: flip involution.  P.horizontalFlip().horizontalFlip() and
\* P.verticalFlip().verticalFlip() have P's extents, and a read of them at (x, y) is a read of
\* P at (x, y) (at every coordinate, integral or not).
C10_FlipInvolution == IsFlippedTwice(cur) => SameAsGrandparent(cur)

C10_Witness ==
    /\ IsFlipOf(cur, "horizontalFlip") /\ IsFlipOf(cur.parent, "horizontalFlip")
    /\ res.op = "get" /\ InRange(cur, res.x, res.y)
    /\ ~IsInteger(res.x)
    /\ cur.width = Num(2)
    /\ res.ret.val = <<1, 0, res.x, res.y>>

----------------------------------------------------------------------------
(* Claims on Pipe2D.stack (SpecStack) *)

\* the sources whose placed rectangle [s.x, s.x + width) x [s.y, s.y + height) holds (x, y)
Covering(x, y) ==
    {i \in 1 .. Len(sources) :
        /\ sources[i].x <= x /\ x < sources[i].x + sources[i].pipe.width
        /\ sources[i].y <= y /\ y < sources[i].y + sources[i].pipe.height}

\* C1: get(x, y) on stack(sources, fallback) reads the source of GREATEST index whose placed
\* rectangle contains (x, y), once, at (x - s.x, y - s.y), and returns what it returns; when
\* no rectangle contains (x, y) it returns fallback and reads no source.
C1_StackTopWins ==
    sres.op = "get" =>
        LET hit == Covering(sres.x, sres.y)
        IN  IF hit = {}
            THEN sres.ret = Ok(fallback, << >>)
            ELSE LET i == CHOOSE j \in hit : \A k \in hit : k <= j
                     lx == sres.x - sources[i].x
                     ly == sres.y - sources[i].y
                 IN  sres.ret = Ok(<<i, 0, lx, ly>>, << <<i, lx, ly>> >>)

C1_Witness ==
    /\ sres.op = "get"
    /\ Covering(sres.x, sres.y) = {1, 2}
    /\ sources[2].x # sources[1].x /\ sources[2].y # 0
    /\ sres.ret.val[1] = 2

----------------------------------------------------------------------------
(* Claims on withCache (SpecCache) *)

EntryCount == Cardinality({c \in CacheCoords : HasItem(columnsMap, c[1], c[2])})

Outcome(r) == <<r.ok, r.val>>

\* C2: cache transparency.  With a pure parent and no invalidator, after any sequence of reads
\* a read of the cached sampler at any (x, y), integral or not, returns (or throws) what
\* P.get(x, y) does, and the last read made did so.
C2_CacheTransparency ==
    (pure /\ ~invalidator) =>
        /\ \A c \in CacheCoords :
              Outcome(WithCacheGet(c[1], c[2], FALSE).ret) = Outcome(Get(parent, c[1], c[2]))
        /\ cres.op = "get" => Outcome(cres.ret) = Outcome(Get(parent, cres.x, cres.y))

C2_Witness ==
    /\ pure /\ ~invalidator
    /\ cres.op = "get" /\ cres.hit /\ cres.parentCalls = 0
    /\ ~IsInteger(cres.x)
    /\ HasItem(columnsMap, Floor(cres.x), cres.y)
    /\ cres.ret.val = <<1, 0, cres.x, cres.y>>

\* C3 as claimed: with no invalidator the parent's get has been invoked exactly once for each
\* coordinate that has been read.
C3_ParentReadOncePerCoordinate ==
    ~invalidator =>
        \A c \in CacheCoords : hist[c].calls = (IF hist[c].reads > 0 THEN 1 ELSE 0)

\* C3 as amended: with no invalidator the parent's get has been invoked exactly once for each
\* coordinate at which a read has returned a value, and never at a coordinate that was not
\* read; a read on which the parent's get throws stores nothing, so a coordinate at which no
\* read has returned has had the parent invoked by each of its reads.
C3_ParentReadOncePerReturnedCoordinate ==
    ~invalidator =>
        \A c \in CacheCoords :
            hist[c].calls = (IF hist[c].returned > 0 THEN 1 ELSE hist[c].reads)

C3_Witness ==
    /\ ~invalidator
    /\ \E c \in CacheCoords : hist[c].returned >= 2 /\ hist[c].calls = 1
    /\ \E c \in CacheCoords : hist[c].reads > 0 /\ hist[c].returned = 0

\* C4: with an invalidator, a read of a coordinate that has an entry consults the invalidator
\* once, with the entry's value and the read coordinates; on false the cached value is returned
\* and the parent is not read (nothing changes); on true the parent is read once, the entry
\* holds the fresh value and the fresh value is returned.  A read of a coordinate without an
\* entry does not consult the invalidator.
C4_ReadWithInvalidator ==
    (invalidator /\ steps' = steps + 1) =>
        LET x == cres'.x
            y == cres'.y
            fresh == Get(parent, x, y)
        IN  IF HasItem(columnsMap, x, y)
            THEN /\ cres'.consulted = 1
                 /\ cres'.context.value = columnsMap[x][y].value
                 /\ cres'.context.x = x /\ cres'.context.y = y
                 /\ ~cres'.answer =>
                        /\ cres'.ret = Ok(columnsMap[x][y].value, << >>)
                        /\ hist'[<<x, y>>].calls = hist[<<x, y>>].calls
                        /\ columnsMap' = columnsMap
                 /\ cres'.answer =>
                        /\ hist'[<<x, y>>].calls = hist[<<x, y>>].calls + 1
                        /\ columnsMap'[x][y].value = fresh.val
                        /\ Outcome(cres'.ret) = <<TRUE, fresh.val>>
            ELSE cres'.consulted = 0

C4_InvalidatorContract == [][C4_ReadWithInvalidator]_vars

C4_Witness ==
    /\ invalidator
    /\ cres.op = "get" /\ cres.hit /\ cres.answer
    /\ cres.ret.val # cres.context.value
    /\ columnsMap[cres.x][cres.y].value = cres.ret.val

\* C5: the memo is append-only.  No step removes an entry or lowers the number of entries, and
\* after every step each coordinate at which a read has returned has an entry.
C5_NoEntryLost ==
    /\ \A c \in CacheCoords : HasItem(columnsMap, c[1], c[2]) => HasItem(columnsMap', c[1], c[2])
    /\ EntryCount' >= EntryCount
    /\ \A c \in CacheCoords : hist'[c].returned > 0 => HasItem(columnsMap', c[1], c[2])

C5_AppendOnly == [][C5_NoEntryLost]_vars

C5_Witness ==
    /\ invalidator
    /\ cres.op = "get" /\ cres.hit /\ cres.answer /\ cres.parentCalls = 1
    /\ EntryCount >= 2
    /\ \E c \in CacheCoords : c[1] = cres.x /\ c[2] # cres.y /\ HasItem(columnsMap, c[1], c[2])

----------------------------------------------------------------------------
(* Claims on the combinators (SpecComb) *)

\* what the leaf returns when it is read once, at (x, y)
LeafRead(x, y) == Ok(<<base.id, 0, x, y>>, << <<base.id, x, y>> >>)

Periods == {0 - 2, 0 - 1, 1, 2}

\* C11: loop periodicity.  On a parent of positive extents w, h a read of P.loop() at any
\* (x, y), negative or fractional, reads the parent once, at (x mod w, y mod h), the
\* non-negative remainders, which lie inside [0,w) x [0,h); and a read at
\* (x + k*w, y + k*h) gives the same for every integer k.
C11_LoopPeriodicity ==
    (cur.kind = "loop" /\ res.op = "get" /\ base.width > 0 /\ base.height > 0) =>
        LET wx == res.x % base.width
            wy == res.y % base.height
        IN  /\ res.ret = LeafRead(wx, wy)
            /\ InRange(base, wx, wy)
            /\ \A k \in Periods :
                  Get(cur, res.x + k * base.width, res.y + k * base.height) = res.ret

C11_Witness ==
    /\ cur.kind = "loop" /\ res.op = "get"
    /\ base.width = Num(2) /\ base.height = One
    /\ res.x < 0 - One /\ ~IsInteger(res.x) /\ res.y > One
    /\ res.ret = LeafRead(res.x + Num(2), res.y - One)

\* C12: interpolation boundary agreement.  A read of P.interpolate(resolver) at integral
\* (x, y), in range or not, reads P once at (x, y), returns what P returns there and does not
\* call the resolver.
C12_InterpolateBoundary ==
    (cur.kind = "interpolate" /\ cur.direct /\ res.op = "get"
        /\ IsInteger(res.x) /\ IsInteger(res.y)) =>
        res.ret = LeafRead(res.x, res.y)

C12_Witness ==
    /\ cur.kind = "interpolate" /\ cur.direct /\ res.op = "get"
    /\ base.width = Num(2) /\ base.height = Num(2)
    /\ res.x = One /\ res.y = One
    /\ res.ret.val = <<1, 0, One, One>>

\* C16: a read of P.strict() at (x, y) throws, without reading P, exactly when x < 0 or y < 0
\* or x >= width or y >= height, and otherwise reads P once at (x, y) and returns what it
\* returns; a read of any other combinator of a caller's sampler returns.
C16_StrictThrowsOutOfRange ==
    res.op = "get" =>
        IF cur.kind = "strict"
        THEN IF res.x < 0 \/ res.y < 0 \/ res.x >= base.width \/ res.y >= base.height
             THEN res.ret = Thrown(<< >>)
             ELSE res.ret = LeafRead(res.x, res.y)
        ELSE res.ret.ok

C16_Witness ==
    /\ cur.kind = "strict" /\ res.op = "get"
    /\ base.width = Num(2)
    /\ res.x = base.width /\ res.y = 0
    /\ ~res.ret.ok

IsTranslate(p) == p.kind = "mapCoordinates" /\ p.modifier = "translate"

\* C17 as claimed: translate(dx, dy) keeps the extents and P.translate(dx, dy).get(x, y) is
\* P.get(x - dx, y - dy).
C17_TranslateMinus ==
    IsTranslate(cur) =>
        /\ cur.width = base.width /\ cur.height = base.height
        /\ res.op = "get" => res.ret = LeafRead(res.x - cur.dx, res.y - cur.dy)

\* C17 as amended: translate(dx, dy) keeps the extents and P.translate(dx, dy).get(x, y) is
\* P.get(x + dx, y + dy): the offsets are added to the coordinates the parent is read at.
C17_TranslatePlus ==
    IsTranslate(cur) =>
        /\ cur.width = base.width /\ cur.height = base.height
        /\ res.op = "get" => res.ret = LeafRead(res.x + cur.dx, res.y + cur.dy)

C17_Witness ==
    /\ IsTranslate(cur) /\ res.op = "get"
    /\ cur.dx = One /\ cur.dy = 0 - One
    /\ res.x = 1 /\ res.y = 0
    /\ res.ret.val = <<1, 0, One + 1, 0 - One>>

\* C18: P.scale(sx, sy) has width P.width * sx and height P.height * sy, and a read of it at
\* (x, y) reads P once at (x / sx, y / sy) and returns what P returns there.
C18_ScaleExtents ==
    cur.kind = "scale" =>
        /\ cur.width * Den = base.width * cur.scaleX
        /\ cur.height * Den = base.height * cur.scaleY
        /\ res.op = "get" =>
              /\ Len(res.ret.reads) = 1
              /\ res.ret.reads[1][2] * cur.scaleX = res.x * Den
              /\ res.ret.reads[1][3] * cur.scaleY = res.y * Den
              /\ res.ret = LeafRead(res.ret.reads[1][2], res.ret.reads[1][3])

C18_Witness ==
    /\ cur.kind = "scale" /\ res.op = "get"
    /\ cur.scaleX = Num(2) /\ cur.scaleY = 1
    /\ base.width = One /\ cur.width = Num(2)
    /\ res.x = One /\ res.y = 1
    /\ res.ret = LeafRead(1, One)

----------------------------------------------------------------------------
(* Claims on the blend functions (SpecBlend) *)

\* the number n over BlendDen^2
Over2(n) == n * BlendOne * BlendOne

\* C13: interpolateNumbers(tl, tr, bl, br, bx, by) is tl at (0,0), tr at (1,0), bl at (0,1), br
\* at (1,1) and in general the bilinear blend of the corners: the blend by by of the blend of
\* (tl, tr) by bx and the blend of (bl, br) by bx; it is 2.5 at (0.5, 0.5) and 2.75 at
\* (0.25, 0.75) for the corners 1, 2, 3, 4.
C13_BilinearNumbers ==
    blend.op = "interpolateNumbers" =>
        LET tl == blend.args[1]
            tr == blend.args[2]
            bl == blend.args[3]
            br == blend.args[4]
            bx == blend.args[5]
            by == blend.args[6]
            top == tl * BlendOne + (tr - tl) * bx
            bottom == bl * BlendOne + (br - bl) * bx
        IN  /\ (bx = 0 /\ by = 0) => blend.out = Over2(tl)
            /\ (bx = BlendOne /\ by = 0) => blend.out = Over2(tr)
            /\ (bx = 0 /\ by = BlendOne) => blend.out = Over2(bl)
            /\ (bx = BlendOne /\ by = BlendOne) => blend.out = Over2(br)
            /\ blend.out = top * BlendOne + (bottom - top) * by
            /\ (<<tl, tr, bl, br>> = <<1, 2, 3, 4>> /\ 2 * bx = BlendOne /\ 2 * by = BlendOne)
                  => 2 * blend.out = Over2(5)
            /\ (<<tl, tr, bl, br>> = <<1, 2, 3, 4>> /\ 4 * bx = BlendOne /\ 4 * by = 3 * BlendOne)
                  => 4 * blend.out = Over2(11)

C13_Witness ==
    /\ blend.op = "interpolateNumbers"
    /\ blend.args[1] = 1 /\ blend.args[2] = 2 /\ blend.args[3] = 3 /\ blend.args[4] = 4
    /\ 4 * blend.args[5] = BlendOne /\ 4 * blend.args[6] = 3 * BlendOne
    /\ 4 * blend.out = Over2(11)

\* C14: interpolateRGBA(tl, tr, bl, br, x, y) is tl at (0,0), tr at (1,0), bl at (0,1), br at
\* (1,1), and each of its channels is the bilinear blend
\* tl(1-x)(1-y) + tr*x(1-y) + bl(1-x)y + br*x*y of that channel's corner values.
C14_BilinearRGBA ==
    blend.op = "interpolateRGBA" =>
        LET tl == blend.args[1]
            tr == blend.args[2]
            bl == blend.args[3]
            br == blend.args[4]
            x == blend.args[5]
            y == blend.args[6]
        IN  /\ Len(blend.out) = 4
            /\ (x = 0 /\ y = 0) => blend.out = [i \in 1 .. 4 |-> Over2(tl[i])]
            /\ (x = BlendOne /\ y = 0) => blend.out = [i \in 1 .. 4 |-> Over2(tr[i])]
            /\ (x = 0 /\ y = BlendOne) => blend.out = [i \in 1 .. 4 |-> Over2(bl[i])]
            /\ (x = BlendOne /\ y = BlendOne) => blend.out = [i \in 1 .. 4 |-> Over2(br[i])]
            /\ \A i \in 1 .. 4 :
                  blend.out[i] = tl[i] * (BlendOne - x) * (BlendOne - y)
                                    + tr[i] * x * (BlendOne - y)
                                    + bl[i] * (BlendOne - x) * y
                                    + br[i] * x * y

C14_Witness ==
    /\ blend.op = "interpolateRGBA"
    /\ blend.args[1] = <<255, 0, 0, 255>> /\ blend.args[2] = <<0, 255, 0, 255>>
    /\ blend.args[3] = <<0, 0, 255, 255>> /\ blend.args[4] = <<255, 255, 0, 255>>
    /\ 2 * blend.args[5] = BlendOne /\ 2 * blend.args[6] = BlendOne
    /\ 4 * blend.out[3] = Over2(255)

\* C15: compositing identity.  applyPixel(bg, fg) is bg when fg's alpha is 0 and fg when fg's
\* alpha is 1; for every other alpha a of fg each colour channel is bg + a * (fg - bg) and
\* the result's alpha is the larger of the two alphas.
C15_CompositingIdentity ==
    blend.op = "applyPixel" =>
        LET bg == blend.args[1]
            fg == blend.args[2]
        IN  /\ fg[4] = 0 => blend.out = [i \in 1 .. 4 |-> bg[i] * BlendOne]
            /\ fg[4] = BlendOne => blend.out = [i \in 1 .. 4 |-> fg[i] * BlendOne]
            /\ fg[4] \notin {0, BlendOne} =>
                  /\ \A i \in 1 .. 3 :
                        blend.out[i] - bg[i] * BlendOne = fg[4] * (fg[i] - bg[i])
                  /\ blend.out[4] \in {bg[4] * BlendOne, fg[4] * BlendOne}
                  /\ blend.out[4] >= bg[4] * BlendOne
                  /\ blend.out[4] >= fg[4] * BlendOne

C15_Witness ==
    /\ blend.op = "applyPixel"
    /\ blend.args[2][4] \notin {0, BlendOne}
    /\ blend.args[1][4] > blend.args[2][4]
    /\ blend.args[1][1] # blend.args[2][1]
    /\ blend.out[4] = blend.args[1][4] * BlendOne

----------------------------------------------------------------------------
(* Claims on the array-backed samplers (SpecFlat) *)

\* the whole number n with n <= c < n + 1
WholeBelow(c) == CHOOSE n \in (0 - 2) .. 4 : n * Den <= c /\ c < (n + 1) * Den

----------------------------------------------------------------------------
(* Claims on the extents of Pipe2D.stack (SpecStack) *)

\* the sampler Pipe2D.stack(sources, fallback) returns
Stacked == Stack(sources, fallback)

\* C20 as claimed: every coordinate inside the placed rectangle of a source, at any offset,
\* lies inside the stack's declared region [0,width) x [0,height): so does every coordinate at
\* which a read lands in some source's rectangle.
C20_StackCoversSources ==
    (sres.op = "get" /\ Covering(sres.x, sres.y) # {}) => InRange(Stacked, sres.x, sres.y)

\* C20 as amended: the stack's width is the largest right edge s.x + s.pipe.width and its
\* height the largest bottom edge s.y + s.pipe.height of its sources, so the declared region
\* [0,width) x [0,height) holds every coordinate of every placed rectangle that has x >= 0
\* and y >= 0; the part of a rectangle placed at a negative offset that lies at negative
\* coordinates is outside the declared region (and is still read from that source).
C20_StackCoversQuadrant ==
    LET st == Stacked
    IN  /\ \A i \in 1 .. Len(sources) :
              /\ sources[i].x + sources[i].pipe.width <= st.width
              /\ sources[i].y + sources[i].pipe.height <= st.height
        /\ sources # << >> =>
              /\ \E i \in 1 .. Len(sources) : st.width = sources[i].x + sources[i].pipe.width
              /\ \E i \in 1 .. Len(sources) : st.height = sources[i].y + sources[i].pipe.height
        /\ (sres.op = "get" /\ Covering(sres.x, sres.y) # {}) =>
              /\ (sres.x >= 0 /\ sres.y >= 0) => InRange(st, sres.x, sres.y)
              /\ sres.ret.val # fallback

C20_Witness ==
    /\ Len(sources) = 2
    /\ sources[1].x < 0 /\ sources[2].y > 0
    /\ sres.op = "get" /\ sres.x < 0
    /\ Covering(sres.x, sres.y) = {1}
    /\ ~InRange(Stacked, sres.x, sres.y)
    /\ sres.ret.val[1] = 1


----------------------------------------------------------------------------
(* Claims on pipeSequence (SpecSeq) *)

\* the pixels the sources hold at the coordinate last read
SeqPixelsRead == [i \in 1 .. Len(sources) |-> Get(sources[i], sres.x, sres.y).val]

\* the last source whose pixel there is fully opaque, 0 when there is none
LastOpaque ==
    LET pix == SeqPixelsRead
        opaque == {i \in DOMAIN pix : pix[i][4] = BlendOne}
    IN  IF opaque = {} THEN 0 ELSE CHOOSE i \in opaque : \A j \in opaque : i >= j

\* applyPixel applied in turn to pix[from], ..., pix[to], starting from [0, 0, 0, 0]
RECURSIVE Composite(_, _, _)
Composite(pix, from, to) ==
    IF to < from THEN [val |-> <<0, 0, 0, 0>>, den |-> BlendOne]
    ELSE LET r == Composite(pix, from, to - 1)
         IN  [val |-> ApplyPixelOver(r.den, r.val, pix[to]), den |-> r.den * BlendOne]

\* C21: a read of pipeSequence(sources) returns the left fold of applyPixel over the sources'
\* pixels in sequence order, starting from [0, 0, 0, 0]; the same colour is obtained from the
\* last fully opaque source and the sources after it alone
C21_SequenceIsFold ==
    sres.op = "get" =>
        LET pix == SeqPixelsRead
            n == Len(pix)
            full == Composite(pix, 1, n)
            short == Composite(pix, Max(LastOpaque, 1), n)
        IN  /\ sres.ret.ok
            /\ sres.ret.val = full.val
            /\ \A i \in 1 .. 4 : sres.ret.val[i] * short.den = short.val[i] * full.den

\* two sources were composited where they overlap: a visible one under a fully opaque one
C21_Witness ==
    /\ sres.op = "get"
    /\ Len(sources) = 2
    /\ SeqPixelsRead[1][4] = 1
    /\ SeqPixelsRead[2][4] = BlendOne
    /\ SeqPixelsRead[1][1] # SeqPixelsRead[2][1]
    /\ LastOpaque = 2

\* the rescaled and clamped coordinate of interpolate along an axis of extent w, for a read
\* at c: c * w / (w + 1) clamped into [0, w - 1], as the numerator over w + 1
Rescaled(extent, c) == Max(0, Min((extent - One) * (extent + One), c * extent))

\* f and c are the floor and the ceiling of the number n / d: integral neighbours around it
IsFloorCeil(f, c, n, d) ==
    /\ IsInteger(f) /\ IsInteger(c)
    /\ f * d <= n /\ n < (f + One) * d
    /\ (c - One) * d < n /\ n <= c * d

\* C22: interpolate (at a non-integral coordinate) and interpolateAs (at every coordinate) on
\* a parent of extents >= 1 rescale (x, y) to (x*w/(w+1), y*h/(h+1)), clamp it into
\* [0, w-1] x [0, h-1], read the parent exactly at the four floor/ceil corners of that point,
\* all integral and inside the extents, and hand the resolver the fractional parts; with the
\* bilinear resolver on the 4 by 4 pipe x + 4y this gives 6 at (1.5, 1.5), 2 at (0.5, 0.5)
\* and 10 at (2.5, 2.5)
C22_InterpolateCorners ==
    (cur.kind = "interpolate" /\ res.op = "get" /\ base.width >= One /\ base.height >= One
        /\ (cur.direct => ~(IsInteger(res.x) /\ IsInteger(res.y)))) =>
        LET dx == base.width + One
            dy == base.height + One
            nx == Rescaled(base.width, res.x)
            ny == Rescaled(base.height, res.y)
            reads == res.ret.reads
            fx == reads[1][2]
            fy == reads[1][3]
            cx == reads[4][2]
            cy == reads[4][3]
        IN  /\ res.ret.ok
            /\ Len(reads) = 5
            /\ IsFloorCeil(fx, cx, nx, dx) /\ IsFloorCeil(fy, cy, ny, dy)
            /\ 0 <= fx /\ cx < base.width /\ 0 <= fy /\ cy < base.height
            /\ reads[1] = <<base.id, fx, fy>> /\ reads[2] = <<base.id, cx, fy>>
            /\ reads[3] = <<base.id, fx, cy>> /\ reads[4] = <<base.id, cx, cy>>
            /\ reads[5] = <<ResolverId, nx - fx * dx, ny - fy * dy>>
            /\ (cur.resolver = "bilinear" /\ base.width = Num(4) /\ base.height = Num(4)) =>
                  /\ (2 * res.x = 3 * One /\ res.y = res.x) =>
                        res.ret.val[2] = Num(6) * res.ret.val[3]
                  /\ (2 * res.x = One /\ res.y = res.x) =>
                        res.ret.val[2] = Num(2) * res.ret.val[3]
                  /\ (2 * res.x = 5 * One /\ res.y = res.x) =>
                        res.ret.val[2] = Num(10) * res.ret.val[3]

\* the test suite's read: the bilinear resolver on the 4 by 4 pipe at (1.5, 1.5), between
\* four distinct corners
C22_Witness ==
    /\ cur.kind = "interpolate" /\ cur.direct /\ cur.resolver = "bilinear"
    /\ base.width = Num(4) /\ base.height = Num(4)
    /\ res.op = "get" /\ 2 * res.x = 3 * One /\ res.y = res.x
    /\ res.ret.ok
    /\ res.ret.reads[1][2] # res.ret.reads[4][2]

\* C23: rotate(angle, originX, originY) rounds the inverse-mapped coordinate: at every
\* integral destination, whatever the origin (the default centre of an odd-sized parent
\* included), every coordinate the parent is read at is integral; and a rotation by 0 about
\* the default centre reads P at exactly (x, y) for every integral in-range (x, y)
C23_RotateReadsLattice ==
    (cur.kind = "rotateAngle" /\ cur.parent = base /\ res.op = "get"
        /\ IsInteger(res.x) /\ IsInteger(res.y)) =>
        /\ \A i \in DOMAIN res.ret.reads :
              IsInteger(res.ret.reads[i][2]) /\ IsInteger(res.ret.reads[i][3])
        /\ (cur.radAngle.halfPi = 0 /\ cur.centerX * 2 = base.width
               /\ cur.centerY * 2 = base.height
               /\ ~OutOfBounds(base.width, base.height, res.x, res.y)) =>
              res.ret = LeafRead(res.x, res.y)

\* C24: rotate(angle) is total and never reads its parent out of bounds: a read returns, a
\* source coordinate outside [0, w) x [0, h) gives the undefined sentinel without a call of
\* the parent's get, so the rotation of P.strict() never raises
C24_RotateNeverReadsOutside ==
    (cur.kind = "rotateAngle" /\ res.op = "get") =>
        /\ res.ret.ok
        /\ \A i \in DOMAIN res.ret.reads :
              ~OutOfBounds(base.width, base.height, res.ret.reads[i][2], res.ret.reads[i][3])
        /\ res.ret.reads = << >> => res.ret.val = Undefined
        /\ res.ret.reads # << >> =>
              res.ret.val = <<base.id, 0, res.ret.reads[1][2], res.ret.reads[1][3]>>

\* a quarter-turn rotation of P.strict() was read where the source coordinate misses P
C24_Witness ==
    /\ cur.kind = "rotateAngle" /\ cur.parent = Strict(base)
    /\ cur.radAngle.halfPi = 1
    /\ base.width = Num(2) /\ base.height = One
    /\ res.op = "get"
    /\ ~OutOfBounds(cur.width, cur.height, res.x, res.y)
    /\ res.ret = Ok(Undefined, << >>)

\* C25: Pipe2D.stack with an empty source list raises an argument error and returns no
\* sampler: every stack that was returned and read has sources, and finite extents
C25_EmptyStackRejected ==
    sres.op = "get" =>
        LET st == Stacked
        IN  /\ Len(st.sources) > 0
            /\ st.width > NegInfinity
            /\ st.height > NegInfinity

----------------------------------------------------------------------------
(* Claims on stash (SpecStash) *)

\* C26: stash() is an eager snapshot.  The call reads the parent exactly once at every
\* integral coordinate of [0, width) x [0, height) and nowhere else; afterwards a read of the
\* stash never reads the parent, and in range it returns the value the parent had at
\* (floor(x), floor(y)) when the stash was taken (epoch 0), whatever the parent returns now
C26_StashSnapshot ==
    /\ res.op = "stash" =>
          LET reads == res.ret.reads
          IN  /\ \A i \in DOMAIN reads :
                    /\ reads[i][2] \in Lattice(base.width)
                    /\ reads[i][3] \in Lattice(base.height)
              /\ \A x \in Lattice(base.width), y \in Lattice(base.height) :
                    Cardinality({i \in DOMAIN reads : reads[i] = <<base.id, x, y>>}) = 1
    /\ (cur # base /\ res.op = "get") =>
          /\ res.ret.ok
          /\ res.ret.reads = << >>
          /\ ~OutOfBounds(base.width, base.height, Floor(res.x), Floor(res.y)) =>
                res.ret.val = <<base.id, 0, Floor(res.x), Floor(res.y)>>

----------------------------------------------------------------------------
(* Claims on the function-style library's export and on the lattice maps (SpecPipe) *)

\* C27: exportPipeYX(source) has source.height rows of source.width elements and
\* exportPipeYX(source)[y][x] = source.get(x, y) at every integral in-range (x, y), although
\* horizontalFlipPipe and rotatePipe each map coordinate 0 to the extent itself
C27_ExportPipeYXLayout ==
    res.op = "exportPipeYX" =>
        /\ Len(res.arr) = Whole(cur.height)
        /\ \A y \in Lattice(cur.height) :
              /\ Len(res.arr[Whole(y) + 1]) = Whole(cur.width)
              /\ \A x \in Lattice(cur.width) :
                    res.arr[Whole(y) + 1][Whole(x) + 1] = Get(cur, x, y).val

\* a 2 by 1 leaf was exported: one row of two different samples
C27_Witness ==
    /\ res.op = "exportPipeYX"
    /\ cur = base
    /\ cur.width = Num(2) /\ cur.height = One
    /\ Len(res.arr) = 1 /\ Len(res.arr[1]) = 2
    /\ res.arr[1][1] # res.arr[1][2]

\* the parent cells an export of the sampler reads: one per cell of its own lattice
CellsRead(p) ==
    {Get(p, x, y).reads : x \in Lattice(p.width), y \in Lattice(p.height)}

\* C29: horizontalFlip, verticalFlip and rotate("left" | "right" | "over") of a parent with
\* positive integer extents map every integral (x, y) inside the child's extents to an
\* integral coordinate inside the parent's extents, one to one and onto: an export of the
\* child reads no cell of the leaf twice and skips none (also through a chain of them)
C29_LatticeBijection ==
    (res.op = "toArrayXY" /\ Depth(cur) >= 1 /\ base.width > 0 /\ base.height > 0) =>
        /\ \A x \in Lattice(cur.width), y \in Lattice(cur.height) :
              LET reads == Get(cur, x, y).reads
              IN  /\ Len(reads) = 1
                  /\ IsInteger(reads[1][2]) /\ IsInteger(reads[1][3])
                  /\ InRange(base, reads[1][2], reads[1][3])
        /\ CellsRead(cur) =
              {<< <<base.id, x, y>> >> : x \in Lattice(base.width), y \in Lattice(base.height)}
        /\ Cardinality(CellsRead(cur)) = Whole(cur.width) * Whole(cur.height)

\* the left rotation of a 2 by 1 leaf was exported: two cells read, both of the leaf's
C29_Witness ==
    /\ res.op = "toArrayXY"
    /\ cur = Rotate(base, "left")
    /\ base.width = Num(2) /\ base.height = One
    /\ Len(res.arr) = 1 /\ Len(res.arr[1]) = 2
    /\ res.arr[1][1] # res.arr[1][2]

----------------------------------------------------------------------------
(* Claims on the cache's size accounting (SpecCache) *)

\* C28: after any sequence of reads of P.withCache(invalidator) -- reads the invalidator
\* answers true to and reads on which P's get throws included -- the cacheSize handed to the
\* invalidator is the number of coordinates that have an entry
C28_CacheSizeIsEntryCount ==
    (cres.op = "get" /\ cres.consulted = 1) => cres.context.cacheSize = EntryCount

----------------------------------------------------------------------------
(* Claims on the angle units (SpecBlend) *)

\* C30: the three angle representations denote the same rotation: angleToRadians maps
\* {asTurns: t}, {asDegrees: 360 * t} and {asRadians: 2 * pi * t} to the same number of
\* radians, 2 * pi * t (q quarter turns are q * pi / 2 radians)
C30_AngleUnitsAgree ==
    blend.op = "angleToRadians" =>
        blend.out = [halfPi |-> blend.args[1].quarters, perPi |-> 0]
====
